---------------------------- MODULE Spec2Model ----------------------------
(***************************************************************************)
(* Model of kaspi_parser.py: parse_amount, get_transactions,               *)
(* get_transaction_tables, parse_statement and export_to_csv.              *)
(*                                                                         *)
(* Text is modelled as a sequence of one-character strings.  The module    *)
(* is written in ASCII, so the tenge sign (U+20B8) is written "T" and the  *)
(* Cyrillic and Kazakh header cells are transliterated; every other        *)
(* character stands for itself.                                            *)
(*                                                                         *)
(* Python floats are modelled as IEEE-754 binary64 values: a sign, a       *)
(* 53-bit significand (most significant bit first) and an exponent, with   *)
(* round-to-nearest-even after every operation.  Overflow, subnormals,     *)
(* infinities and NaN are outside the bounded inputs and not modelled.     *)
(***************************************************************************)
EXTENDS Integers, Sequences, FiniteSets

VARIABLES
    amount_str,         \* parse_amount: the argument of the call under test
    amount_res,         \* parse_amount: its outcome (Raise("pending") before the call)
    pc,                 \* position of main(): see the pipeline actions
    pages,              \* pdf.pages: a sequence of pages, each the sequence of
                        \* tables its extract_tables() returns
    page_no,            \* pages taken from pdf.pages by get_transaction_tables
    tables,             \* tables of the current page not yet visited
    header_is_found,    \* get_transaction_tables: its flag
    yielded,            \* history: the batches get_transaction_tables yielded
    transaction_table,  \* rows of the current batch get_transactions has not
                        \* visited yet
    transactions,       \* parse_statement: its list
    source,             \* history: the raw row of each appended transaction
    total_change,       \* parse_statement: its accumulators
    total_inflow,
    total_outflow,
    log,                \* the logger.error calls, in order
    raised,             \* the exception parse_statement caught ("none": none)
    escaped,            \* the exception that left parse_statement ("none": none)
    result,             \* the list parse_statement returned
    csv_rows,           \* export_to_csv: the rows written after the header row
    export_failed       \* export_to_csv: whether it printed an error

-----------------------------------------------------------------------------
(* Bounds of the model *)

MaxLen == 5             \* longest amount string given to parse_amount alone
MaxPages == 2           \* pages of a document
MaxTables == 3          \* tables of a document, over all its pages
MaxRows == 3            \* rows of a document, over all its tables
MaxBatch == 3           \* rows under the header of a one-table document

-----------------------------------------------------------------------------
(* binary64 arithmetic *)

MantBits == 53

Max(a, b) == IF a >= b THEN a ELSE b
Min(a, b) == IF a <= b THEN a ELSE b

Zeros(n) == [i \in 1..n |-> 0]

StripZeros(b) ==
    IF \A i \in 1..Len(b) : b[i] = 0 THEN <<>>
    ELSE LET f == CHOOSE i \in 1..Len(b) :
                      b[i] = 1 /\ \A j \in 1..(i - 1) : b[j] = 0
         IN  SubSeq(b, f, Len(b))

PadLeft(b, n) == Zeros(n - Len(b)) \o b

\* The carry into bit i of a + b (bit strings of one length, i = 0 for the
\* carry out): some less significant bit j generates a carry and every bit
\* between them passes it on.
CarryInto(a, b, i) ==
    \E j \in (i + 1)..Len(a) :
        /\ a[j] = 1 /\ b[j] = 1
        /\ \A k \in (i + 1)..(j - 1) : a[k] + b[k] = 1

\* a + b for bit strings of one length n; the result has n + 1 bits.
BitsAdd(a, b) ==
    [i \in 1..(Len(a) + 1) |->
        LET c == IF CarryInto(a, b, i - 1) THEN 1 ELSE 0
        IN  IF i = 1 THEN c ELSE (a[i - 1] + b[i - 1] + c) % 2]

\* The borrow taken from bit i of a - b.
BorrowFrom(a, b, i) ==
    \E j \in (i + 1)..Len(a) :
        /\ a[j] < b[j]
        /\ \A k \in (i + 1)..(j - 1) : a[k] = b[k]

\* a - b for bit strings of one length n with a >= b; the result has n bits.
BitsSub(a, b) ==
    [i \in 1..Len(a) |->
        LET c == IF BorrowFrom(a, b, i) THEN 1 ELSE 0
        IN  (a[i] - b[i] - c + 2) % 2]

\* a < b for bit strings of one length.
BitsLess(a, b) ==
    \E i \in 1..Len(a) :
        /\ a[i] < b[i]
        /\ \A j \in 1..(i - 1) : a[j] = b[j]

RECURSIVE IntBits(_)
IntBits(n) == IF n = 0 THEN <<>> ELSE Append(IntBits(n \div 2), n % 2)

RECURSIVE BitsInt(_)
BitsInt(b) ==
    IF b = <<>> THEN 0 ELSE 2 * BitsInt(SubSeq(b, 1, Len(b) - 1)) + b[Len(b)]

FZero == [neg |-> FALSE, mant |-> <<>>, exp |-> 0]

IsZero(x) == x.mant = <<>>

\* A significand inc of MantBits + 1 bits (a leading carry bit) at exponent
\* exp, as a binary64: a carry out gives 1 followed by zeros, one place up.
Renormalize(neg, inc, exp) ==
    IF inc[1] = 1
    THEN [neg |-> neg, mant |-> SubSeq(inc, 1, MantBits), exp |-> exp + 1]
    ELSE [neg |-> neg, mant |-> Tail(inc), exp |-> exp]

\* RoundBits for bits b without leading zeros.
RoundStripped(neg, b, exp, sticky) ==
    IF Len(b) = 0 THEN FZero
    ELSE IF Len(b) <= MantBits
    THEN [neg |-> neg, mant |-> b \o Zeros(MantBits - Len(b)),
          exp |-> exp - (MantBits - Len(b))]
    ELSE LET guard == b[MantBits + 1]
             rest == sticky \/ \E i \in (MantBits + 2)..Len(b) : b[i] = 1
             up == guard = 1 /\ (rest \/ b[MantBits] = 1)
         IN  Renormalize(neg,
                         IF up
                         THEN BitsAdd(SubSeq(b, 1, MantBits),
                                      Zeros(MantBits - 1) \o <<1>>)
                         ELSE <<0>> \o SubSeq(b, 1, MantBits),
                         exp + (Len(b) - MantBits))

\* The binary64 nearest to (-1)^neg * (bits + f) * 2^exp, where bits is a
\* binary integer and 0 <= f < 1 is nonzero exactly when sticky holds: ties
\* go to the even significand.
RoundBits(neg, bits, exp, sticky) ==
    RoundStripped(neg, StripZeros(bits), exp, sticky)

\* -x.  (The sign of a zero is not kept: -0.0 == 0.0 in Python, and neither
\* a comparison nor round() tells them apart.)
FNeg(x) == IF IsZero(x) THEN x ELSE [x EXCEPT !.neg = ~x.neg]

\* x + y for the magnitudes xa and ya of x and y, bit strings of one length
\* in units of 2^e.
AddAligned(xneg, xa, yneg, ya, e) ==
    IF xneg = yneg THEN RoundBits(xneg, BitsAdd(xa, ya), e, FALSE)
    ELSE IF BitsLess(xa, ya) THEN RoundBits(yneg, BitsSub(ya, xa), e, FALSE)
    ELSE RoundBits(xneg, BitsSub(xa, ya), e, FALSE)

\* x + y, correctly rounded: the exact sum of the two values, rounded once.
FAdd(x, y) ==
    IF IsZero(x) THEN y
    ELSE IF IsZero(y) THEN x
    ELSE LET e == Min(x.exp, y.exp)
             n == MantBits + Max(x.exp, y.exp) - e
         IN  AddAligned(x.neg, PadLeft(x.mant \o Zeros(x.exp - e), n),
                        y.neg, PadLeft(y.mant \o Zeros(y.exp - e), n), e)

\* x > 0
FPositive(x) == ~IsZero(x) /\ ~x.neg

RECURSIVE Pow10(_)
Pow10(k) == IF k = 0 THEN 1 ELSE 10 * Pow10(k - 1)

RECURSIVE Pow2(_)
Pow2(k) == IF k = 0 THEN 1 ELSE 2 * Pow2(k - 1)

\* One step of the long division: the quotient and remainder so far (high)
\* and the next w bits of the dividend, whose value with the remainder is t.
DivStep(high, t, d, w) ==
    [quot |-> high.quot \o PadLeft(IntBits(t \div d), w), rem |-> t % d]

\* Long division of the bit string num by d > 0, w bits at a time (Len(num)
\* is a multiple of w and d * 2^w fits a machine integer): the quotient, as
\* many bits as num, and the remainder.
RECURSIVE LongDiv(_, _, _)
LongDivNext(high, low, d, w) ==
    DivStep(high, high.rem * Pow2(w) + BitsInt(low), d, w)

LongDiv(num, d, w) ==
    IF num = <<>> THEN [quot |-> <<>>, rem |-> 0]
    ELSE LongDivNext(LongDiv(SubSeq(num, 1, Len(num) - w), d, w),
                     SubSeq(num, Len(num) - w + 1, Len(num)), d, w)

\* The binary64 nearest to num / (d * 2^s), for a quotient r of num by d.
RoundQuotient(r, s) == RoundBits(FALSE, r.quot, -s, r.rem # 0)

\* The binary64 nearest to mb / d for a binary integer mb # 0 and a divisor
\* d of dbits bits: mb * 2^s / d is formed by long division to at least
\* MantBits + 2 bits and rounded once.
DivRound(mb, d, s, w) ==
    RoundQuotient(
        LongDiv(PadLeft(mb \o Zeros(s), w * ((Len(mb) + s + w - 1) \div w)), d, w),
        s)

DivToFloat(mb, d, dbits) ==
    DivRound(mb, d, Max(0, MantBits + 2 + dbits - Len(mb)), 30 - dbits)

\* float() of the decimal numeral m / 10^k (m >= 0)
DecToFloat(m, k) ==
    IF m = 0 THEN FZero
    ELSE DivToFloat(IntBits(m), Pow10(k), Len(IntBits(Pow10(k))))

\* ip + f rounded with ties going up, away from zero
RoundHalfUp(ip, frac) ==
    IF frac # <<>> /\ frac[1] = 1 THEN ip + 1 ELSE ip

\* The integer nearest to ip + f, where ip is an integer and f the binary
\* fraction with the bits frac: ties go to the even integer.
RoundHalfEven(ip, frac) ==
    IF /\ frac # <<>>
       /\ frac[1] = 1
       /\ (ip % 2 = 1 \/ \E i \in 2..Len(frac) : frac[i] = 1)
    THEN ip + 1
    ELSE ip

\* |x| rounded, for |x| = w * 2^-n with w a bit string of more than n bits
RoundMagnitude(w, n) ==
    RoundHalfEven(BitsInt(SubSeq(w, 1, Len(w) - n)),
                  SubSeq(w, Len(w) - n + 1, Len(w)))

\* round(x) with one argument: the nearest integer, ties to the even one
\* (float.__round__).
FRound(x) ==
    IF IsZero(x) THEN 0
    ELSE (IF x.neg THEN -1 ELSE 1) *
         (IF x.exp >= 0 THEN BitsInt(x.mant \o Zeros(x.exp))
          ELSE RoundMagnitude(PadLeft(x.mant, Max(MantBits, 1 - x.exp)), -x.exp))

-----------------------------------------------------------------------------
(* parse_amount *)

Digits == {"0", "1", "2", "3", "4", "5", "6", "7", "8", "9"}

\* \s of the re module, for the characters of the model
Whitespace == {" ", "\t", "\n"}

EXPECTED_CURRENCY == <<"T">>

DigitVal(c) ==
    CASE c = "0" -> 0 [] c = "1" -> 1 [] c = "2" -> 2 [] c = "3" -> 3
      [] c = "4" -> 4 [] c = "5" -> 5 [] c = "6" -> 6 [] c = "7" -> 7
      [] c = "8" -> 8 [] c = "9" -> 9

\* The whole text, its later lines included
WholeText(s) == s

\* amount_str.split('\n')[0]
FirstLine(s) ==
    IF \E i \in 1..Len(s) : s[i] = "\n"
    THEN LET i == CHOOSE i \in 1..Len(s) :
                      s[i] = "\n" /\ \A j \in 1..(i - 1) : s[j] # "\n"
         IN  SubSeq(s, 1, i - 1)
    ELSE s

\* str.replace(old, new) for a one-character old and a new of at most one
\* character
RECURSIVE Replace(_, _, _)
Replace(s, old, new) ==
    IF s = <<>> THEN <<>>
    ELSE (IF Head(s) = old THEN new ELSE <<Head(s)>>)
             \o Replace(Tail(s), old, new)

\* The ways AMOUNT_PATTERN matches the whole of line: the sign is line[1],
\* \s* is line[2..i], the amount group line[i+1..j], the single space
\* line[j+1] and the currency group line[j+2..Len(line)].
AmountSplits(line) ==
    {ij \in (1..Len(line)) \X (1..Len(line)) :
        /\ line[1] \in {"+", "-"}
        /\ ij[1] < ij[2]
        /\ ij[2] + 2 <= Len(line)
        /\ \A p \in 2..ij[1] : line[p] \in Whitespace
        /\ \A p \in (ij[1] + 1)..ij[2] : line[p] \in Digits \cup {",", " "}
        /\ line[ij[2] + 1] = " "
        /\ \A p \in (ij[2] + 2)..Len(line) : line[p] \notin Whitespace}

\* The groups of the match with the split ij
AmountGroups(line, ij) ==
    [matched |-> TRUE,
     sign |-> line[1],
     amount |-> SubSeq(line, ij[1] + 1, ij[2]),
     currency |-> SubSeq(line, ij[2] + 2, Len(line))]

\* The match the regex engine finds among the splits S: \s* is greedy, so
\* the longest \s* that lets the rest match wins.
GreedyMatch(line, S) ==
    IF S = {} THEN [matched |-> FALSE]
    ELSE AmountGroups(line, CHOOSE x \in S : \A y \in S : y[1] <= x[1])

\* re.match(AMOUNT_PATTERN, line)
AmountMatch(line) == GreedyMatch(line, AmountSplits(line))

\* Whether float(t) accepts t, a text of digits and periods: at most one
\* period and at least one digit.
FloatAccepts(t) ==
    /\ Cardinality({i \in 1..Len(t) : t[i] = "."}) <= 1
    /\ \E i \in 1..Len(t) : t[i] \in Digits

RECURSIVE DigitsInt(_)
DigitsInt(t) ==
    IF t = <<>> THEN 0
    ELSE 10 * DigitsInt(SubSeq(t, 1, Len(t) - 1)) + DigitVal(t[Len(t)])

\* float(t) for an accepted t
FloatOf(t) ==
    DecToFloat(DigitsInt(SelectSeq(t, LAMBDA c : c # ".")),
               IF \E i \in 1..Len(t) : t[i] = "."
               THEN Len(t) - (CHOOSE i \in 1..Len(t) : t[i] = ".")
               ELSE 0)

Ok(v) == [ok |-> TRUE, val |-> v]
Raise(kind) == [ok |-> FALSE, exc |-> kind]

\* float(t), or the ValueError it raises
ToFloat(t) == IF FloatAccepts(t) THEN Ok(FloatOf(t)) ELSE Raise("ValueError")

\* amount if match.group("sign") == "+" else -amount
Signed(sign, amount) ==
    IF ~amount.ok THEN amount
    ELSE Ok(IF sign = "+" THEN amount.val ELSE FNeg(amount.val))

\* parse_amount from its match object on
AmountOfMatch(match) ==
    IF ~match.matched THEN Raise("ValueError")
    ELSE IF match.currency # EXPECTED_CURRENCY THEN Raise("ValueError")
    ELSE Signed(match.sign,
                ToFloat(Replace(Replace(match.amount, ",", <<".">>), " ", <<>>)))

parse_amount(s) == AmountOfMatch(AmountMatch(FirstLine(s)))

-----------------------------------------------------------------------------
(* get_transactions *)

\* One item of "%d.%m.%y" as _strptime's regular expressions accept it.
DayText(t) ==
    \/ Len(t) = 1 /\ t[1] \in Digits \ {"0"}
    \/ /\ Len(t) = 2
       /\ \/ t[1] = "3" /\ t[2] \in {"0", "1"}
          \/ t[1] \in {"1", "2"} /\ t[2] \in Digits
          \/ t[1] = "0" /\ t[2] \in Digits \ {"0"}
          \/ t[1] = " " /\ t[2] \in Digits \ {"0"}

MonthText(t) ==
    \/ Len(t) = 1 /\ t[1] \in Digits \ {"0"}
    \/ /\ Len(t) = 2
       /\ \/ t[1] = "1" /\ t[2] \in {"0", "1", "2"}
          \/ t[1] = "0" /\ t[2] \in Digits \ {"0"}

YearText(t) == Len(t) = 2 /\ t[1] \in Digits /\ t[2] \in Digits

DaysInMonth(year, month) ==
    IF month = 2
    THEN (IF year % 4 = 0 /\ (year % 100 # 0 \/ year % 400 = 0) THEN 29 ELSE 28)
    ELSE IF month \in {4, 6, 9, 11} THEN 30 ELSE 31

\* The date of the day, month and two-digit year found, or the ValueError
\* of a day the month does not have; years below 69 are 20yy.
DateOf(day, month, year) ==
    IF day > DaysInMonth(year, month) THEN Raise("ValueError")
    ELSE Ok([year |-> year, month |-> month, day |-> day])

DateOfTexts(d, m, y) ==
    IF ~(DayText(d) /\ MonthText(m) /\ YearText(y)) THEN Raise("ValueError")
    ELSE DateOf(DigitsInt(SelectSeq(d, LAMBDA c : c # " ")), DigitsInt(m),
                IF DigitsInt(y) < 69 THEN 2000 + DigitsInt(y)
                ELSE 1900 + DigitsInt(y))

\* The text split at its first period p and its last period q
SplitDate(text, p, q) ==
    DateOfTexts(SubSeq(text, 1, p - 1), SubSeq(text, p + 1, q - 1),
                SubSeq(text, q + 1, Len(text)))

\* datetime.datetime.strptime(text, "%d.%m.%y")
strptime(text) ==
    LET dots == {i \in 1..Len(text) : text[i] = "."}
    IN  IF Cardinality(dots) # 2 THEN Raise("ValueError")
        ELSE SplitDate(text, CHOOSE i \in dots : \A j \in dots : i <= j,
                             CHOOSE i \in dots : \A j \in dots : j <= i)

\* A builder that keeps a row whose amount did not parse, with a zero
\* amount in its place
NewTransactionPlaceholder(date, details, amount) ==
    IF ~date.ok THEN date
    ELSE Ok([date |-> date.val, payee |-> details, memo |-> <<>>,
             amount |-> IF amount.ok THEN amount.val ELSE FZero])

\* Transaction(date=..., payee=details, memo="", amount=...), or the first
\* exception raised while evaluating its arguments
NewTransaction(date, details, amount) ==
    IF ~date.ok THEN date
    ELSE IF ~amount.ok THEN amount
    ELSE Ok([date |-> date.val, payee |-> details, memo |-> <<>>,
             amount |-> amount.val])

\* The body of the try block of get_transactions for one line: the
\* Transaction it yields, or the exception its except clause receives
\* (a line that is not of four cells cannot be unpacked).
BuildTransaction(line) ==
    IF Len(line) # 4 THEN Raise("ValueError")
    ELSE NewTransaction(strptime(line[1]), line[4], parse_amount(line[2]))

-----------------------------------------------------------------------------
(* get_transaction_tables *)

H_EN == << <<"D","a","t","e">>, <<"A","m","o","u","n","t">>,
           <<"T","r","a","n","s","a","c","t","i","o","n">>,
           <<"D","e","t","a","i","l","s">> >>
H_RU == << <<"D","a","t","a">>, <<"S","u","m","m","a">>,
           <<"O","p","e","r","a","t","s","i","y","a">>,
           <<"D","e","t","a","l","i">> >>
H_KK == << <<"K","u","n","i">>, <<"S","o","m","a","s","y">>,
           <<"O","p","e","r","a","t","s","i","y","a">>,
           <<"T","o","l","y","g","y","r","a","q">> >>

TRANSACTION_TABLE_HEADER_VARIANTS == <<H_EN, H_RU, H_KK>>

\* row in TRANSACTION_TABLE_HEADER_VARIANTS
InHeaderVariants(row) ==
    \E i \in 1..Len(TRANSACTION_TABLE_HEADER_VARIANTS) :
        TRANSACTION_TABLE_HEADER_VARIANTS[i] = row

\* The loop body of a walk that takes any header signature in a first row
\* for the header again, whatever the flag.
VisitTableRematching(found, table) ==
    IF table # <<>> /\ InHeaderVariants(table[1])
    THEN [do |-> "yield", batch |-> Tail(table), found |-> TRUE]
    ELSE IF found THEN [do |-> "yield", batch |-> table, found |-> TRUE]
    ELSE IF table = <<>> THEN [do |-> "raise", exc |-> "IndexError"]
    ELSE [do |-> "skip"]

\* What the loop body of get_transaction_tables does with one table under
\* the flag found: "yield" a batch (and the flag after it), "skip" the
\* table, or "raise" (table[0] of a table with no rows is an IndexError).
VisitTable(found, table) ==
    IF found THEN [do |-> "yield", batch |-> table, found |-> TRUE]
    ELSE IF table = <<>> THEN [do |-> "raise", exc |-> "IndexError"]
    ELSE IF InHeaderVariants(table[1])
    THEN [do |-> "yield", batch |-> Tail(table), found |-> TRUE]
    ELSE [do |-> "skip"]

-----------------------------------------------------------------------------
(* parse_statement and export_to_csv *)

\* The exceptions of the model: all of them are subclasses of Exception.
\* "PDFError" stands for whatever pdfplumber.open or extract_tables raises.
Exceptions == {"ValueError", "IndexError", "PDFError"}

\* except ValueError as e
ExceptMatchesValueError(exc) == exc = "ValueError"

\* except Exception as e
ExceptMatches(exc) == exc \in Exceptions

\* The line export_to_csv writes for one transaction.
DigitChar(n) ==
    CASE n = 0 -> "0" [] n = 1 -> "1" [] n = 2 -> "2" [] n = 3 -> "3"
      [] n = 4 -> "4" [] n = 5 -> "5" [] n = 6 -> "6" [] n = 7 -> "7"
      [] n = 8 -> "8" [] n = 9 -> "9"

\* date.strftime("%Y-%m-%d")
strftime(date) ==
    << DigitChar(date.year \div 1000), DigitChar((date.year \div 100) % 10),
       DigitChar((date.year \div 10) % 10), DigitChar(date.year % 10), "-",
       DigitChar(date.month \div 10), DigitChar(date.month % 10), "-",
       DigitChar(date.day \div 10), DigitChar(date.day % 10) >>

CsvRow(transaction) ==
    [Date |-> strftime(transaction.date),
     Payee |-> transaction.payee,
     Memo |-> transaction.memo,
     Amount |-> FRound(transaction.amount)]

vars == <<amount_str, amount_res, pc, pages, page_no, tables, header_is_found,
          yielded, transaction_table, transactions, source, total_change,
          total_inflow, total_outflow, log, raised, escaped, result, csv_rows,
          export_failed>>

amountVars == <<amount_str, amount_res>>
walkVars == <<page_no, tables, header_is_found, yielded, transaction_table>>
listVars == <<transactions, source, total_change, total_inflow, total_outflow>>
exportVars == <<csv_rows, export_failed>>

\* An exception exc leaves the try block of parse_statement: the except
\* clause reports it and the function returns its list, or exc propagates.
Except(exc) ==
    IF ExceptMatches(exc)
    THEN /\ raised' = exc
         /\ log' = Append(log, [what |-> "Parsing error", line |-> <<>>])
         /\ result' = transactions
         /\ pc' = "returned"
         /\ UNCHANGED escaped
    ELSE /\ escaped' = exc
         /\ pc' = "aborted"
         /\ UNCHANGED <<raised, log, result>>

\* A get_transactions without its try block: the exception of a malformed
\* line leaves the generator and ends the walk in parse_statement.
NextRowAborting ==
    /\ pc = "rows"
    /\ \E built \in {BuildTransaction(Head(transaction_table))} :
          IF built.ok
          THEN /\ transactions' = Append(transactions, built.val)
               /\ source' = Append(source, Head(transaction_table))
               /\ total_change' = FAdd(total_change, built.val.amount)
               /\ IF FPositive(built.val.amount)
                  THEN /\ total_inflow' = FAdd(total_inflow, built.val.amount)
                       /\ UNCHANGED total_outflow
                  ELSE /\ total_outflow' = FAdd(total_outflow, built.val.amount)
                       /\ UNCHANGED total_inflow
               /\ transaction_table' = Tail(transaction_table)
               /\ pc' = IF Tail(transaction_table) = <<>> THEN "walk" ELSE "rows"
               /\ UNCHANGED <<log, raised, escaped, result>>
          ELSE /\ Except(built.exc)
               /\ UNCHANGED <<listVars, transaction_table>>
    /\ UNCHANGED <<pages, amountVars, page_no, tables, header_is_found,
                   yielded, exportVars>>

\* pdfplumber.open(pdf_file): the document opens, or the call raises.
Open ==
    /\ pc = "start"
    /\ \E ok \in BOOLEAN :
          IF ok
          THEN pc' = "walk" /\ UNCHANGED <<raised, escaped, result, log>>
          ELSE Except("PDFError")
    /\ UNCHANGED <<pages, amountVars, walkVars, listVars, exportVars>>

\* get_transaction_tables takes the next page and extracts its tables, or
\* extract_tables raises.
NextPage ==
    /\ pc = "walk"
    /\ tables = <<>>
    /\ page_no < Len(pages)
    /\ \E ok \in BOOLEAN :
          IF ok
          THEN /\ page_no' = page_no + 1
               /\ tables' = pages[page_no + 1]
               /\ UNCHANGED <<pc, raised, escaped, result, log>>
          ELSE /\ Except("PDFError")
               /\ UNCHANGED <<page_no, tables>>
    /\ UNCHANGED <<pages, amountVars, header_is_found, yielded,
                   transaction_table, listVars, exportVars>>

\* get_transaction_tables visits the next table of the current page; a
\* yielded batch goes to get_transactions.
NextTable ==
    /\ pc = "walk"
    /\ tables # <<>>
    /\ LET visit == VisitTable(header_is_found, Head(tables))
       IN  CASE visit.do = "yield" ->
                  /\ header_is_found' = visit.found
                  /\ yielded' = Append(yielded, visit.batch)
                  /\ transaction_table' = visit.batch
                  /\ tables' = Tail(tables)
                  /\ pc' = IF visit.batch = <<>> THEN "walk" ELSE "rows"
                  /\ UNCHANGED <<raised, escaped, result, log>>
             [] visit.do = "skip" ->
                  /\ tables' = Tail(tables)
                  /\ UNCHANGED <<header_is_found, yielded, transaction_table,
                                 pc, raised, escaped, result, log>>
             [] visit.do = "raise" ->
                  /\ Except(visit.exc)
                  /\ UNCHANGED <<header_is_found, yielded, transaction_table,
                                 tables>>
    /\ UNCHANGED <<pages, amountVars, page_no, listVars, exportVars>>

\* get_transactions handles the next line of the batch; parse_statement
\* appends a yielded transaction and updates its accumulators.
NextRow ==
    /\ pc = "rows"
    /\ LET line == Head(transaction_table)
       IN \E built \in {BuildTransaction(line)} :
           IF built.ok
           THEN LET transaction == built.val
                IN  /\ transactions' = Append(transactions, transaction)
                    /\ source' = Append(source, line)
                    /\ total_change' = FAdd(total_change, transaction.amount)
                    /\ IF FPositive(transaction.amount)
                       THEN /\ total_inflow' =
                                   FAdd(total_inflow, transaction.amount)
                            /\ UNCHANGED total_outflow
                       ELSE /\ total_outflow' =
                                   FAdd(total_outflow, transaction.amount)
                            /\ UNCHANGED total_inflow
                    /\ UNCHANGED log
           ELSE /\ log' = Append(log, [what |-> "Failed to parse transaction",
                                       line |-> line])
                /\ UNCHANGED listVars
    /\ transaction_table' = Tail(transaction_table)
    /\ pc' = IF Tail(transaction_table) = <<>> THEN "walk" ELSE "rows"
    /\ UNCHANGED <<pages, amountVars, page_no, tables, header_is_found,
                   yielded, raised, escaped, result, exportVars>>

\* The pages are exhausted: get_transaction_tables raises if it found no
\* header, else parse_statement logs its totals and returns.
EndOfPages ==
    /\ pc = "walk"
    /\ tables = <<>>
    /\ page_no = Len(pages)
    /\ IF ~header_is_found
       THEN Except("ValueError")
       ELSE /\ result' = transactions
            /\ pc' = "returned"
            /\ UNCHANGED <<raised, escaped, log>>
    /\ UNCHANGED <<pages, amountVars, walkVars, listVars, exportVars>>

\* export_to_csv(transactions, output_csv): the file is written, or opening
\* it raises and the error is printed.
Export ==
    /\ pc = "returned"
    /\ \E ok \in BOOLEAN :
          IF ok
          THEN /\ csv_rows' = [i \in 1..Len(result) |-> CsvRow(result[i])]
               /\ UNCHANGED export_failed
          ELSE /\ export_failed' = TRUE
               /\ UNCHANGED csv_rows
    /\ pc' = "done"
    /\ UNCHANGED <<pages, amountVars, walkVars, listVars, log, raised,
                   escaped, result>>

Next == Open \/ NextPage \/ NextTable \/ NextRow \/ EndOfPages \/ Export

-----------------------------------------------------------------------------
(* The documents of the model *)

\* The rows of the end-to-end example of the statement format
ROW_ALICE == << <<"0","1",".","0","3",".","2","4">>,
                <<"+"," ","1"," ","0","0","0",",","5","0"," ","T">>,
                <<"I","n">>, <<"A","l">> >>
ROW_SHOP == << <<"0","2",".","0","3",".","2","4">>,
               <<"-"," ","2","5","0"," ","T">>,
               <<"O","u","t">>, <<"S","h">> >>
ROW_TENTH == << <<"0","3",".","0","3",".","2","4">>,
                <<"+"," ","0",",","1","0"," ","T">>,
                <<"I","n">>, <<"B","o">> >>
ROW_FEE == << <<"0","3",".","0","3",".","2","4">>,
              <<"-"," ","0",",","7","0"," ","T">>,
              <<"O","u","t">>, <<"B","k">> >>
ROW_HALF == << <<"4",".","3",".","2","4">>,
               <<"+","1",",","5"," ","T">>,
               <<"I","n">>, <<"E","v">> >>
ROW_ZERO == << <<"0","5",".","0","3",".","2","4">>,
               <<"-"," ","0",",","0","0"," ","T">>,
               <<"O","u","t">>, <<"B","k">> >>
ROW_DOLLAR == << <<"0","6",".","0","3",".","2","4">>,
                 <<"+"," ","2","0",",","9","3"," ","$">>,
                 <<"I","n">>, <<"D","a">> >>
ROW_BAD_DATE == << <<"3","1",".","0","2",".","2","4">>,
                   <<"+"," ","5"," ","T">>,
                   <<"I","n">>, <<"D","a">> >>
ROW_SHORT == << <<"0","7",".","0","3",".","2","4">>,
                <<"+"," ","5"," ","T">>, <<"I","n">> >>

\* Rows of the documents that vary the layout: a header row and a data row
LayoutRows == {H_EN, ROW_SHOP}

\* Rows under the header of the one-table documents
BatchRows == {ROW_ALICE, ROW_SHOP, ROW_TENTH, ROW_FEE, ROW_HALF, ROW_ZERO,
              ROW_DOLLAR, ROW_BAD_DATE, ROW_SHORT}

SeqsUpTo(S, n) == UNION {[1..k -> S] : k \in 0..n}

\* The pages of exactly k tables and s rows
RECURSIVE PagesOf(_, _)
PagesOf(k, s) ==
    IF k = 0 THEN (IF s = 0 THEN {<<>>} ELSE {})
    ELSE UNION {{<<table>> \o rest : table \in [1..n -> LayoutRows],
                                     rest \in PagesOf(k - 1, s - n)}
                : n \in 0..s}

\* The documents of at most p pages, t tables and r rows
RECURSIVE DocsWithin(_, _, _)
DocsWithin(p, t, r) ==
    {<<>>} \cup
    (IF p = 0 THEN {}
     ELSE UNION {{<<page>> \o rest : page \in PagesOf(ks[1], ks[2]),
                                    rest \in DocsWithin(p - 1, t - ks[1], r - ks[2])}
                 : ks \in (0..t) \X (0..r)})

\* One page with one table: a header row and a batch of rows under it, of
\* at most n rows under the first header variant and one under the others
BatchDocs(n) ==
    {<< << <<TRANSACTION_TABLE_HEADER_VARIANTS[h]>> \o batch >> >>
        : h \in 1..Len(TRANSACTION_TABLE_HEADER_VARIANTS),
          batch \in SeqsUpTo(BatchRows, n)} \
    {<< << <<TRANSACTION_TABLE_HEADER_VARIANTS[h]>> \o batch >> >>
        : h \in 2..Len(TRANSACTION_TABLE_HEADER_VARIANTS),
          batch \in SeqsUpTo(BatchRows, n) \ SeqsUpTo(BatchRows, 1)}

\* The state in which main() calls parse_statement
Start ==
    /\ pc = "start"
    /\ page_no = 0
    /\ tables = <<>>
    /\ header_is_found = FALSE
    /\ yielded = <<>>
    /\ transaction_table = <<>>
    /\ transactions = <<>>
    /\ source = <<>>
    /\ total_change = FZero
    /\ total_inflow = FZero
    /\ total_outflow = FZero
    /\ log = <<>>
    /\ raised = "none"
    /\ escaped = "none"
    /\ result = <<>>
    /\ csv_rows = <<>>
    /\ export_failed = FALSE
    /\ amount_str = <<>>
    /\ amount_res = Raise("pending")

Init == pages \in DocsWithin(MaxPages, MaxTables, MaxRows) /\ Start

Spec == Init /\ [][Next]_vars

InitBatch == pages \in BatchDocs(MaxBatch) /\ Start

SpecBatch == InitBatch /\ [][Next]_vars

-----------------------------------------------------------------------------
(* parse_amount on its own *)

AmountAlphabet == {"+", "-", " ", "\t", "0", "1", ",", "T", "\n"}

AmountStrings(len) == UNION {[1..n -> AmountAlphabet] : n \in 0..len}

InitAmount ==
    /\ amount_str \in AmountStrings(MaxLen)
    /\ amount_res = Raise("pending")
    /\ pc = "amount"
    /\ pages = <<>>
    /\ page_no = 0
    /\ tables = <<>>
    /\ header_is_found = FALSE
    /\ yielded = <<>>
    /\ transaction_table = <<>>
    /\ transactions = <<>>
    /\ source = <<>>
    /\ total_change = FZero
    /\ total_inflow = FZero
    /\ total_outflow = FZero
    /\ log = <<>>
    /\ raised = "none"
    /\ escaped = "none"
    /\ result = <<>>
    /\ csv_rows = <<>>
    /\ export_failed = FALSE

CallParseAmount ==
    /\ pc = "amount"
    /\ amount_res' = parse_amount(amount_str)
    /\ pc' = "amount_done"
    /\ UNCHANGED <<amount_str, pages, walkVars, listVars, log, raised, escaped,
                   result, exportVars>>

NextAmount == CallParseAmount

SpecAmount == InitAmount /\ [][NextAmount]_vars

-----------------------------------------------------------------------------
(* What the statement format promises about a document *)

RECURSIVE Concat(_)
Concat(seqs) == IF seqs = <<>> THEN <<>> ELSE Head(seqs) \o Concat(Tail(seqs))

IsPrefix(a, b) == Len(a) <= Len(b) /\ SubSeq(b, 1, Len(a)) = a

\* A table whose first row is one of the known header signatures
IsHeaderTable(table) == table # <<>> /\ InHeaderVariants(table[1])

\* The positions of the header tables among the tables ts
HeaderIndexes(ts) == {i \in 1..Len(ts) : IsHeaderTable(ts[i])}

\* Some table of the document has a header signature as its first row
HasHeader(doc) == HeaderIndexes(Concat(doc)) # {}

\* The batches the format describes for the tables ts, the first header
\* table being ts[h]: that table without its first row, then every later
\* table in full.
BatchesFrom(ts, h) == <<Tail(ts[h])>> \o SubSeq(ts, h + 1, Len(ts))

FirstOf(idx) == CHOOSE i \in idx : \A j \in idx : i <= j

ExpectedBatches(doc) ==
    BatchesFrom(Concat(doc), FirstOf(HeaderIndexes(Concat(doc))))

\* A run that has returned to main() and in which pdfplumber did not fail
Completed == pc \in {"returned", "done"} /\ raised # "PDFError"

\* The report parse_statement makes of the exception it caught
Reported == log # <<>> /\ log[Len(log)].what = "Parsing error"

-----------------------------------------------------------------------------
(* get_transaction_tables: C1, C2, C5, C10 *)

\* C1: a table met while the header-found flag is false, and whose first
\* row is not a header signature (a table of zero rows included), is
\* skipped: the step that visits it yields nothing, raises nothing, leaves
\* the flag false and goes on to the next table.
C1_NonHeaderTableSkipped ==
    [][(pc = "walk" /\ tables # <<>> /\ ~header_is_found
            /\ ~IsHeaderTable(Head(tables)))
        => /\ tables' = Tail(tables)
           /\ yielded' = yielded
           /\ raised' = "none"
           /\ pc' = "walk"
           /\ ~header_is_found']_vars

\* C2: for a document with a header table, the batches yielded by a
\* completed walk are the first header table without its first row followed
\* by every later table in full, so that their concatenation is the rows of
\* that table after its first, then every row of every later table.
C2_BatchesFollowHeader ==
    (Completed /\ HasHeader(pages))
        => /\ yielded = ExpectedBatches(pages)
           /\ Concat(yielded) = Concat(ExpectedBatches(pages))

\* C5: for a document with no header table, no batch is yielded, the
\* header-not-found error is raised once the pages are exhausted,
\* parse_statement reports it and returns an empty list, and nothing
\* escapes; the header-not-found error is raised only at exhaustion and
\* never for a document in which some table matched.
C5_HeaderNotFoundAtExhaustion ==
    /\ raised = "ValueError"
          => /\ ~HasHeader(pages)
             /\ page_no = Len(pages)
             /\ tables = <<>>
    /\ (Completed /\ ~HasHeader(pages))
          => /\ raised = "ValueError"
             /\ Reported
             /\ yielded = <<>>
             /\ result = <<>>
             /\ escaped = "none"

\* C10: the header-found flag never goes from true to false; no batch is
\* yielded while it is false; the table that sets it is a header table and
\* is yielded without its first row; every table visited after that is
\* yielded in full, a first row that is a header signature included.
C10_HeaderFlagSetOnce ==
    [][/\ header_is_found => header_is_found'
       /\ ~header_is_found' => yielded' = <<>>
       /\ (~header_is_found /\ header_is_found')
             => /\ tables # <<>>
                /\ IsHeaderTable(Head(tables))
                /\ yielded' = <<Tail(Head(tables))>>
       /\ (header_is_found /\ tables # <<>> /\ tables' # tables)
             => /\ tables' = Tail(tables)
                /\ yielded' = Append(yielded, Head(tables))]_vars

\* A continuation table that starts with a header signature has been
\* yielded, header row and all.
C10_HeaderRowKeptInContinuation ==
    /\ header_is_found
    /\ \E i \in 2..Len(yielded) : IsHeaderTable(yielded[i])

-----------------------------------------------------------------------------
(* get_transactions and parse_statement: C3, C4, C6, C9 *)

\* A raw row that unpacks into four cells whose date and amount parse
WellFormed(line) ==
    /\ Len(line) = 4
    /\ strptime(line[1]).ok
    /\ parse_amount(line[2]).ok

\* The transaction of a well-formed row: the date of its first cell, the
\* amount of its second, its fourth as the payee and an empty memo
TransactionOf(line) ==
    [date |-> strptime(line[1]).val, payee |-> line[4], memo |-> <<>>,
     amount |-> parse_amount(line[2]).val]

\* The row line, of which date and amount are what its first two cells
\* parse to, added to the rows sifted so far
SiftRow(sifted, line, date, amount) ==
    IF date.ok /\ amount.ok
    THEN [sifted EXCEPT
             !.good = Append(@, line),
             !.transactions = Append(@, [date |-> date.val, payee |-> line[4],
                                         memo |-> <<>>, amount |-> amount.val])]
    ELSE [sifted EXCEPT !.bad = Append(@, line)]

SiftLine(sifted, line) ==
    IF Len(line) # 4 THEN [sifted EXCEPT !.bad = Append(@, line)]
    ELSE SiftRow(sifted, line, strptime(line[1]), parse_amount(line[2]))

\* The rows sifted in one pass: the well-formed ones (good) with their
\* transactions, and the others (bad), each part in row order
RECURSIVE Sift(_)
Sift(rows) ==
    IF rows = <<>> THEN [good |-> <<>>, transactions |-> <<>>, bad |-> <<>>]
    ELSE SiftLine(Sift(SubSeq(rows, 1, Len(rows) - 1)), rows[Len(rows)])

TransactionsOf(rows) == Sift(rows).transactions

\* The rows get_transactions has handled so far: the yielded rows but for
\* the ones still ahead in the current batch
Handled ==
    SubSeq(Concat(yielded), 1, Len(Concat(yielded)) - Len(transaction_table))

IsFailure(entry) == entry.what = "Failed to parse transaction"

\* The lines reported as failed, in the order of the reports
FailedLines ==
    [i \in 1..Len(SelectSeq(log, IsFailure)) |-> SelectSeq(log, IsFailure)[i].line]

\* C3: of the rows handled so far, the well-formed ones have each yielded
\* their transaction, in row order; every other row has been reported once,
\* in row order, and skipped; and no malformed row has ended the build: the
\* only error parse_statement may have caught is pdfplumber's.
SkippedAndReported(sifted) ==
    /\ source = sifted.good
    /\ transactions = sifted.transactions
    /\ FailedLines = sifted.bad

C3_MalformedRowsSkipped ==
    /\ SkippedAndReported(Sift(Handled))
    /\ raised \in {"none", "PDFError"}
    /\ pc # "aborted"

\* Three rows of which the second has an unparseable amount: two
\* transactions and one report
C3_SecondRowSkipped ==
    /\ Handled = <<ROW_ALICE, ROW_DOLLAR, ROW_SHOP>>
    /\ transactions = <<TransactionOf(ROW_ALICE), TransactionOf(ROW_SHOP)>>
    /\ FailedLines = <<ROW_DOLLAR>>

\* What a run without failure returns for the document: the transactions
\* of the well-formed rows among the rows of its batches
FailureFree(doc) ==
    IF HasHeader(doc) THEN TransactionsOf(Concat(ExpectedBatches(doc)))
    ELSE <<>>

\* C4: no exception leaves parse_statement; once it has returned, with or
\* without an error caught, its result is the list of the transactions
\* appended so far, a prefix of what a run without failure returns, and a
\* caught error has been reported.
C4_ParseStatementNeverRaises ==
    /\ pc # "aborted"
    /\ escaped = "none"
    /\ pc \in {"returned", "done"}
          => /\ result = transactions
             /\ IsPrefix(result, FailureFree(pages))
             /\ raised # "none" => Reported

\* An error caught after a transaction was appended and before the last:
\* the call has returned a proper, nonempty prefix.
C4_PartialListReturned ==
    /\ pc = "returned"
    /\ raised = "PDFError"
    /\ result # <<>>
    /\ Len(result) < Len(FailureFree(pages))

\* x <= 0
FNonPositive(x) == IsZero(x) \/ x.neg

\* x >= 0
FNonNegative(x) == IsZero(x) \/ ~x.neg

RECURSIVE FSum(_)
FSum(amounts) ==
    IF amounts = <<>> THEN FZero
    ELSE FAdd(FSum(SubSeq(amounts, 1, Len(amounts) - 1)), amounts[Len(amounts)])

Amounts == [i \in 1..Len(transactions) |-> transactions[i].amount]

\* C6: after every appended transaction, net change == inflow + outflow,
\* net change is the sum of all the amounts, inflow the sum of the amounts
\* > 0 and outflow the sum of the amounts <= 0 (a zero amount counts as
\* outflow), and there is one transaction per amount counted.
C6_TotalsConsistent ==
    /\ total_change = FAdd(total_inflow, total_outflow)
    /\ total_change = FSum(Amounts)
    /\ total_inflow = FSum(SelectSeq(Amounts, FPositive))
    /\ total_outflow = FSum(SelectSeq(Amounts, FNonPositive))
    /\ Len(transactions) = Len(source)

\* The amount cell with its sign marker changed for the other one
FlipSign(cell) ==
    [i \in 1..Len(cell) |->
        IF i = 1 THEN (IF cell[1] = "+" THEN "-" ELSE "+") ELSE cell[i]]

\* The amount a, parsed from a cell with the sign marker sign, agrees with
\* the marker, and the cell with the other marker parses to -a.
SignLaw(sign, a, flipped) ==
    /\ sign = "+" => FNonNegative(a)
    /\ sign = "-" => FNonPositive(a)
    /\ flipped = Ok(FNeg(a))
    /\ a = FNeg(flipped.val)

\* transaction is the transaction of the row line, whose amount cell
\* parsed to the result parsed
FromParsedCell(transaction, line, parsed) ==
    /\ parsed.ok
    /\ transaction.amount = parsed.val
    /\ SignLaw(line[2][1], parsed.val, parse_amount(FlipSign(line[2])))

AmountParsed(line) == Len(line) >= 2 /\ parse_amount(line[2]).ok

\* C9: every transaction comes from a row whose amount cell parsed, and has
\* the amount parsed from it: non-negative under "+", non-positive under
\* "-", and the negation of what the cell parses to under the other sign;
\* the rows from which transactions come are rows handled whose amount
\* parsed, so a row whose amount did not parse has produced nothing.
C9_AmountsFromParsedCells ==
    /\ Len(source) = Len(transactions)
    /\ \A i \in 1..Len(transactions) :
          FromParsedCell(transactions[i], source[i], parse_amount(source[i][2]))
    /\ \A i \in 1..Len(source) : \E j \in 1..Len(Handled) : Handled[j] = source[i]
    /\ Len(transactions) <= Len(SelectSeq(Handled, AmountParsed))

\* A "+" row and a "-" row have produced transactions, and a row whose
\* amount did not parse has been handled between them.
C9_BothSignsAndAFailure ==
    /\ Handled = <<ROW_TENTH, ROW_DOLLAR, ROW_FEE>>
    /\ Len(transactions) = 2
    /\ FPositive(transactions[1].amount)
    /\ transactions[2].amount.neg

-----------------------------------------------------------------------------
(* export_to_csv: C7 *)

\* The number an amount cell writes, without its sign, as the integer m of
\* its digits over 10^k, k being the number of digits after the comma
CellDigits(cell) == DigitsInt(SelectSeq(cell, LAMBDA c : c \in Digits))

CellDecimals(cell) ==
    IF \E i \in 1..Len(cell) : cell[i] = ","
    THEN Cardinality({j \in 1..Len(cell) :
                         /\ cell[j] \in Digits
                         /\ \E i \in 1..(j - 1) : cell[i] = ","})
    ELSE 0

\* q + r / d to the nearest integer: ties to the even one, or ties upwards
NearestEven(q, r, d) ==
    IF 2 * r > d \/ (2 * r = d /\ q % 2 = 1) THEN q + 1 ELSE q

NearestUp(q, r, d) == IF 2 * r >= d THEN q + 1 ELSE q

WithSign(cell, n) == IF cell[1] = "-" THEN -n ELSE n

\* The whole units of the amount a cell writes, under each rounding
UnitsEven(cell) ==
    WithSign(cell, NearestEven(CellDigits(cell) \div Pow10(CellDecimals(cell)),
                               CellDigits(cell) % Pow10(CellDecimals(cell)),
                               Pow10(CellDecimals(cell))))

UnitsUp(cell) ==
    WithSign(cell, NearestUp(CellDigits(cell) \div Pow10(CellDecimals(cell)),
                             CellDigits(cell) % Pow10(CellDecimals(cell)),
                             Pow10(CellDecimals(cell))))

\* The file holds one row per transaction of the list, in the order of the
\* list, with the amounts given
RowsExported(amounts) ==
    /\ Len(csv_rows) = Len(result)
    /\ \A i \in 1..Len(result) :
          csv_rows[i] = [Date |-> strftime(result[i].date),
                         Payee |-> result[i].payee,
                         Memo |-> result[i].memo,
                         Amount |-> amounts[i]]

Exported == pc = "done" /\ ~export_failed

\* C7, as stated: the Amount of each row is the amount of its cell rounded
\* to the nearest whole unit, an amount halfway between two going up in
\* magnitude (1000.5 to 1001), and the rows are in the order of the list.
C7_AmountRoundedHalfUp ==
    Exported => RowsExported([i \in 1..Len(source) |-> UnitsUp(source[i][2])])

\* C7, amended: the Amount of each row is the amount of its cell rounded to
\* the nearest whole unit, an amount halfway between two going to the even
\* one (1000.5 to 1000, 1.5 to 2), and the rows are in the order of the list.
C7_AmountRoundedHalfEven ==
    Exported => RowsExported([i \in 1..Len(source) |-> UnitsEven(source[i][2])])

\* The rows of 1000,50 and of 1,5 exported, one tie going down and one up,
\* with the row of -250 between them
C7_TiesExported ==
    /\ Exported
    /\ source = <<ROW_ALICE, ROW_SHOP, ROW_HALF>>
    /\ csv_rows[1].Date = <<"2","0","2","4","-","0","3","-","0","1">>
    /\ csv_rows[1].Amount = 1000
    /\ csv_rows[2].Amount = -250
    /\ csv_rows[3].Amount = 2

-----------------------------------------------------------------------------
(* parse_amount: C8 *)

LiteralChars == Digits \cup {",", " "}

\* line is: whitespace up to the sign at p, a sign, whitespace up to q, a
\* literal of digits, spaces and commas from q to r, one space, and the
\* expected currency symbol
ShapedAt(line, p, q, r) ==
    /\ p < q /\ q <= r /\ r + 1 <= Len(line)
    /\ \A i \in 1..(p - 1) : line[i] \in Whitespace
    /\ line[p] \in {"+", "-"}
    /\ \A i \in (p + 1)..(q - 1) : line[i] \in Whitespace
    /\ \A i \in q..r : line[i] \in LiteralChars
    /\ line[r + 1] = " "
    /\ SubSeq(line, r + 2, Len(line)) = EXPECTED_CURRENCY

\* The shape as specified: leading whitespace allowed, any literal
SpecifiedShape(line) ==
    \E p, q, r \in 1..Len(line) : ShapedAt(line, p, q, r)

\* The shape parse_amount accepts: the sign comes first, and the literal
\* has a digit and at most one comma
AcceptedShape(line) ==
    \E q, r \in 1..Len(line) :
        /\ ShapedAt(line, 1, q, r)
        /\ \E i \in q..r : line[i] \in Digits
        /\ Cardinality({i \in q..r : line[i] = ","}) <= 1

\* The value the line writes: its digits over 10^k, with its sign
ValueOf(line) ==
    IF line[1] = "+" THEN DecToFloat(CellDigits(line), CellDecimals(line))
    ELSE FNeg(DecToFloat(CellDigits(line), CellDecimals(line)))

Parsed == pc = "amount_done"

\* The text before the first line break of s: all of s when it has none
UpToBreak(s) ==
    SubSeq(s, 1, CHOOSE n \in 0..Len(s) :
                    /\ \A i \in 1..n : s[i] # "\n"
                    /\ n < Len(s) => s[n + 1] = "\n")

\* parse_amount has returned the value of the line, or raised its error
Returned(line, accepted) ==
    IF accepted THEN amount_res = Ok(ValueOf(line))
    ELSE amount_res = Raise("ValueError")

\* C8, as stated: parse_amount succeeds, with the signed value, when the
\* first line of the string has the specified shape (optional leading
\* whitespace, sign, optional whitespace, a literal of digits, spaces
\* and/or commas, one space, the expected currency symbol), and fails with
\* a parsing error when it has not.
C8_SucceedsOnSpecifiedShape ==
    Parsed => Returned(UpToBreak(amount_str),
                       SpecifiedShape(UpToBreak(amount_str)))

\* C8, amended: parse_amount succeeds, with the signed value, when the
\* first line of the string is a sign, optional whitespace, a literal of
\* digits, spaces and/or commas with at least one digit and at most one
\* comma, one space and the expected currency symbol, whatever the later
\* lines; it fails with a parsing error for every other string.
C8_SucceedsOnAcceptedShape ==
    Parsed => Returned(UpToBreak(amount_str),
                       AcceptedShape(UpToBreak(amount_str)))

\* An amount followed by a second line has parsed to its value
C8_FirstLineParsed ==
    /\ Parsed
    /\ amount_str = <<"-", "1", " ", "T", "\n">>
    /\ amount_res = Ok(FNeg(DecToFloat(1, 0)))

====
